---------------------------- MODULE Spec2Model ----------------------------
(***************************************************************************)
(* A model of guavagrams: the signed/unsigned coordinate conversion, the   *)
(* board and its scanner, connectivity validator and scorer, the tile      *)
(* pile, and the key-event handler that drives them.                       *)
(*                                                                         *)
(* Representation.  A Coordinate(i8, i8) and a GridIndex(u8, u8) are pairs *)
(* <<.0, .1>>.  A Grid<Option<char>> is the function from its occupied     *)
(* GridIndex cells to their letters: a cell outside its DOMAIN holds None. *)
(* A Grid<bool> is the set of cells that hold true.  A String is the       *)
(* sequence of its chars, a Vec a sequence, a HashSet a set.               *)
(***************************************************************************)
EXTENDS Integers, Sequences, FiniteSets, TLC

VARIABLES
    cursor,     \* Camera::cursor
    grid,       \* Camera::grid, the shared Grid<Option<char>>
    tileset,    \* GameState::tileset = <<pile, hand>>
    score,      \* GameState::score
    game_end,   \* GameState::game_end: <<>> for None, <<instant>> for Some
    clock,      \* the time Instant::now() reads: the number of key events so far
    response,   \* what the last call of event_handler returned, if any
    placed,     \* history: coordinate -> letter put there and not picked up since
    mutex,      \* the Mutex of the SharedGrid: who holds the lock, if anyone
    pc,         \* position of a caller of one of the pure functions
    arg,        \* the arguments of that call
    ret         \* its result

vars == <<cursor, grid, tileset, score, game_end, clock, response, placed,
          mutex, pc, arg, ret>>

None == "None"

\* ------------------------------------------------------------------------
\* 8-bit integers
\* ------------------------------------------------------------------------

i8_MIN == -128
i8_MAX == 127
u8_MAX == 255

I8 == i8_MIN..i8_MAX
U8 == 0..u8_MAX

\* i8::cast_unsigned: the same bits read as a u8.
cast_unsigned(v) == v % 256

\* u8::cast_signed: the same bits read as an i8.
cast_signed(u) == IF u > i8_MAX THEN u - 256 ELSE u

\* Bitwise exclusive or of the low n bits of two bit patterns.
RECURSIVE BitXor(_, _, _)
BitXor(a, b, n) ==
    IF n = 0 THEN 0
    ELSE (((a % 2) + (b % 2)) % 2) + 2 * BitXor(a \div 2, b \div 2, n - 1)

\* i8 ^ i8
i8_xor(a, b) == cast_signed(BitXor(cast_unsigned(a), cast_unsigned(b), 8))

\* i8::wrapping_add: an addition that wraps instead of clipping.
i8_wrapping_add(a, b) == cast_signed(cast_unsigned(a + b))

\* i8::saturating_add
i8_saturating_add(a, b) ==
    IF a + b > i8_MAX THEN i8_MAX ELSE IF a + b < i8_MIN THEN i8_MIN ELSE a + b

\* i8::saturating_sub
i8_saturating_sub(a, b) ==
    IF a - b > i8_MAX THEN i8_MAX ELSE IF a - b < i8_MIN THEN i8_MIN ELSE a - b

\* i8::overflowing_add: <<the wrapped sum, whether it overflowed>>
i8_overflowing_add(a, b) ==
    <<cast_signed(cast_unsigned(a + b)), a + b > i8_MAX \/ a + b < i8_MIN>>

\* ------------------------------------------------------------------------
\* grid/index.rs
\* ------------------------------------------------------------------------

Coordinates == I8 \X I8
GridIndexes == U8 \X U8

\* impl Add for Coordinate
Coordinate_add(self, rhs) ==
    <<i8_saturating_add(self[1], rhs[1]), i8_saturating_add(self[2], rhs[2])>>

\* impl Sub for Coordinate
Coordinate_sub(self, rhs) ==
    <<i8_saturating_sub(self[1], rhs[1]), i8_saturating_sub(self[2], rhs[2])>>

\* impl From<GridIndex> for Coordinate
Coordinate_from(value) ==
    <<i8_xor(cast_signed(value[1]), i8_MIN), i8_xor(cast_signed(value[2]), i8_MAX)>>

\* Coordinate::overflowing_add
Coordinate_overflowing_add(self, rhs) ==
    LET x == i8_overflowing_add(self[1], rhs[1])
        y == i8_overflowing_add(self[2], rhs[2])
    IN <<(<<x[1], y[1]>>), x[2] \/ y[2]>>

\* impl From<Coordinate> for GridIndex.  Both components are computed from
\* value.0, as in the source.
GridIndex_from(value) ==
    <<cast_unsigned(i8_xor(value[1], i8_MIN)), cast_unsigned(i8_xor(value[1], i8_MAX))>>

\* ------------------------------------------------------------------------
\* The state the program starts in is defined with the event handler below;
\* a caller of a pure function leaves the game where it is.
\* ------------------------------------------------------------------------

EmptyGrid == [i \in {} |-> None]

\* Mutex<Grid>: nobody holds the lock.
Unlocked == "unlocked"

\* No call of event_handler has returned yet.
NoResponse == [ok |-> TRUE, value |-> [response |-> "None"]]

Idle ==
    /\ cursor = <<0, 0>>
    /\ grid = EmptyGrid
    /\ tileset = <<(<<>>), (<<>>)>>
    /\ score = 0
    /\ game_end = <<>>
    /\ clock = 0
    /\ response = NoResponse
    /\ placed = EmptyGrid
    /\ mutex = Unlocked

game_vars == <<cursor, grid, tileset, score, game_end, clock, response, placed,
               mutex>>

\* ------------------------------------------------------------------------
\* SpecIndex: a caller converts every Coordinate and every GridIndex.
\* ------------------------------------------------------------------------

InitIndex ==
    /\ Idle
    /\ pc = "call"
    /\ arg \in [type : {"Coordinate"}, value : Coordinates]
              \cup [type : {"GridIndex"}, value : GridIndexes]
    /\ ret = None

\* GridIndex::from(c), and Coordinate::from of the result
ConvertCoordinate ==
    /\ pc = "call"
    /\ arg.type = "Coordinate"
    /\ ret' = [index |-> GridIndex_from(arg.value),
               back |-> Coordinate_from(GridIndex_from(arg.value))]
    /\ pc' = "converted"
    /\ UNCHANGED <<arg, game_vars>>

\* Coordinate::from(i), and GridIndex::from of the result
ConvertGridIndex ==
    /\ pc = "call"
    /\ arg.type = "GridIndex"
    /\ ret' = [coordinate |-> Coordinate_from(arg.value),
               back |-> GridIndex_from(Coordinate_from(arg.value))]
    /\ pc' = "converted"
    /\ UNCHANGED <<arg, game_vars>>

NextIndex == ConvertCoordinate \/ ConvertGridIndex

SpecIndex == InitIndex /\ [][NextIndex]_vars

\* C1: the two conversions are mutual inverses: converting a Coordinate to
\* a GridIndex and back gives the Coordinate, and converting a GridIndex to
\* a Coordinate and back gives the GridIndex.
C1_RoundTrip == pc = "converted" => ret.back = arg.value

\* C2: GridIndex::from((x, y)) is ((x + 128) mod 256, (127 - y) mod 256),
\* and Coordinate::from((col, row)) is the (x, y) with
\* col = (x + 128) mod 256 and row = (127 - y) mod 256.
C2_BiasAndFlip ==
    pc = "converted" =>
        IF arg.type = "Coordinate"
        THEN ret.index = <<(arg.value[1] + 128) % 256, (127 - arg.value[2]) % 256>>
        ELSE /\ ret.coordinate \in Coordinates
             /\ arg.value = <<(ret.coordinate[1] + 128) % 256,
                              (127 - ret.coordinate[2]) % 256>>

\* ------------------------------------------------------------------------
\* Results and errors (main.rs, enum Error)
\* ------------------------------------------------------------------------

Ok(v) == [ok |-> TRUE, value |-> v]
Err(e) == [ok |-> FALSE, error |-> e]

WordsNotConnected == [kind |-> "WordsNotConnected"]
InvalidWord(w) == [kind |-> "InvalidWord", word |-> w]
NoMoreTiles == [kind |-> "NoMoreTiles"]
HandHasTiles == [kind |-> "HandHasTiles"]

\* ------------------------------------------------------------------------
\* dictionary.rs: the pile
\* ------------------------------------------------------------------------

\* Iterator::take: the first n elements, or all of them when there are fewer.
take(seq, n) == SubSeq(seq, 1, IF n < Len(seq) THEN n ELSE Len(seq))

\* A pull that checks the pile against one tile fewer than it is asked for.
pull_from_pile_off_by_one(pile, amount) ==
    [result |-> IF Len(pile) < amount - 1 THEN Err(NoMoreTiles)
                ELSE Ok(take(pile, amount)),
     pile |-> pile]

\* Distribution::pull_from_pile(pile: &mut [char], amount).  The result
\* collects references to the first `amount` chars; the slice is not written.
pull_from_pile(pile, amount) ==
    [result |-> IF Len(pile) < amount THEN Err(NoMoreTiles)
                ELSE Ok(take(pile, amount)),
     pile |-> pile]

\* ------------------------------------------------------------------------
\* SpecPile: a caller pulls any amount from any short pile.
\* ------------------------------------------------------------------------

MaxPileLen == 4
PileLetters == {"a", "b"}

SeqsUpTo(S, n) == UNION {[1..k -> S] : k \in 0..n}

InitPile ==
    /\ Idle
    /\ pc = "call"
    /\ arg \in [pile : SeqsUpTo(PileLetters, MaxPileLen), amount : 0..(MaxPileLen + 1)]
    /\ ret = None

Pull ==
    /\ pc = "call"
    /\ ret' = pull_from_pile(arg.pile, arg.amount)
    /\ pc' = "pulled"
    /\ UNCHANGED <<arg, game_vars>>

NextPile == Pull

SpecPile == InitPile /\ [][NextPile]_vars

\* C8: with count <= pile.len(), pull_from_pile returns the first count
\* letters of the pile in order and removes them from the pile: the pile
\* afterwards is the old pile without its first count letters.
C8_PullRemoves ==
    (pc = "pulled" /\ arg.amount <= Len(arg.pile)) =>
        /\ ret.result = Ok(SubSeq(arg.pile, 1, arg.amount))
        /\ ret.pile = SubSeq(arg.pile, arg.amount + 1, Len(arg.pile))
        /\ Len(ret.pile) = Len(arg.pile) - arg.amount

\* C10: with count > pile.len(), pull_from_pile returns Err(NoMoreTiles) and
\* leaves the pile as it was, same letters in the same order.
C10_PullTooMany ==
    (pc = "pulled" /\ arg.amount > Len(arg.pile)) =>
        /\ ret.result = Err(NoMoreTiles)
        /\ ret.pile = arg.pile

\* A 2-tile pile asked for 3 tiles has answered with the error.
C10_Witness ==
    /\ pc = "pulled"
    /\ Len(arg.pile) = 2
    /\ arg.amount = 3
    /\ ret.result = Err(NoMoreTiles)

\* ------------------------------------------------------------------------
\* grid/mod.rs: Grid::score_grid
\*
\* An f64 is modelled by the exact fraction <<numerator, denominator>>.  The
\* letter sums and the multipliers 1.0, 1.5, 2.0 and 2.5 are exact in f64;
\* 0.8 is the fraction 4/5, and with the few repetitions a batch here holds
\* the f64 product truncates to the same integer as the exact one.
\* ------------------------------------------------------------------------

\* GameState::scoretable (main.rs)
scoretable ==
    [l \in {"a", "e", "i", "l", "n", "o", "r", "s", "t", "u"} |-> 1]
    @@ [l \in {"d", "g"} |-> 2]
    @@ [l \in {"b", "c", "m", "p"} |-> 3]
    @@ [l \in {"f", "h", "v", "w", "y"} |-> 4]
    @@ [l \in {"k"} |-> 5]
    @@ [l \in {"j", "x"} |-> 8]
    @@ [l \in {"q", "z"} |-> 10]

\* scoretable.get(&tile).unwrap_or(&0)
tile_score(table, tile) == IF tile \in DOMAIN table THEN table[tile] ELSE 0

\* the loop over word.chars() that sums the tiles' scores
RECURSIVE letter_sum(_, _)
letter_sum(table, word) ==
    IF word = <<>> THEN 0
    ELSE tile_score(table, Head(word)) + letter_sum(table, Tail(word))

\* word.len(): the length in bytes, one for each tile of the distributions.
String_len(word) == Len(word)

\* A multiplier whose first tier ends one letter late.
length_multiplier_late_tier(len) ==
    IF len \in 1..4 THEN <<1, 1>>
    ELSE IF len \in 5..6 THEN <<3, 2>>
    ELSE IF len \in 7..9 THEN <<2, 1>>
    ELSE <<5, 2>>

\* match word.len() { 1..=3 => 1.0, 4..=6 => 1.5, 7..=9 => 2.0, _ => 2.5 }
length_multiplier(len) ==
    IF len \in 1..3 THEN <<1, 1>>
    ELSE IF len \in 4..6 THEN <<3, 2>>
    ELSE IF len \in 7..9 THEN <<2, 1>>
    ELSE <<5, 2>>

\* f64 * f64
f64_mul(a, b) == <<a[1] * b[1], a[2] * b[2]>>

\* f64 as i64: truncation toward zero.
f64_as_i64(a) ==
    IF a[1] >= 0 THEN a[1] \div a[2] ELSE -((-a[1]) \div a[2])

\* words.iter().filter(|s| !seen.insert(*s)): the occurrences of a word
\* after its first one.
stale_words(words) ==
    SelectSeq([i \in 1..Len(words) |-> [word |-> words[i],
                                        seen |-> \E j \in 1..(i - 1) : words[j] = words[i]]],
              LAMBDA e : e.seen)

\* stale.iter().filter(|x| **x == word).count()
stale_count(stale, word) == Cardinality({i \in 1..Len(stale) : stale[i].word = word})

\* word_score *= 0.8, n times
RECURSIVE stale_penalty(_, _)
stale_penalty(word_score, n) ==
    IF n = 0 THEN word_score ELSE stale_penalty(f64_mul(word_score, <<4, 5>>), n - 1)

\* the body of `for word in words`: what one word adds to change
word_change(stale, table, word) ==
    f64_as_i64(stale_penalty(f64_mul(<<letter_sum(table, word), 1>>,
                                     length_multiplier(String_len(word))),
                             stale_count(stale, word)))

RECURSIVE score_loop(_, _, _, _)
score_loop(stale, table, words, change) ==
    IF words = <<>> THEN change
    ELSE score_loop(stale, table, Tail(words),
                    change + word_change(stale, table, Head(words)))

\* Grid::score_grid(words, scoretable)
score_grid(words, table) == score_loop(stale_words(words), table, words, 0)

\* ------------------------------------------------------------------------
\* SpecScore: a caller scores any batch of a few words.
\* ------------------------------------------------------------------------

MaxWordLen == 11
MaxBatch == 2

\* "?" is a tile the score table does not hold.
ScoreWord(first, n) == [i \in 1..n |-> IF i = 1 THEN first ELSE "a"]

ScoreWords ==
    {<<"c", "a", "b">>}
    \cup {ScoreWord(first, n) : first \in {"a", "b", "?"}, n \in 1..MaxWordLen}

InitScore ==
    /\ Idle
    /\ pc = "call"
    /\ arg \in SeqsUpTo(ScoreWords, MaxBatch)
    /\ ret = None

Score ==
    /\ pc = "call"
    /\ ret' = score_grid(arg, scoretable)
    /\ pc' = "scored"
    /\ UNCHANGED <<arg, game_vars>>

NextScore == Score

SpecScore == InitScore /\ [][NextScore]_vars

cab == <<"c", "a", "b">>

\* C6: in a batch that holds the same word twice only the second occurrence
\* takes the x0.8 penalty: ["cab"] scores 7 and ["cab", "cab"] scores
\* 7 + 5 = 12.
C6_SecondOccurrenceOnly ==
    /\ (pc = "scored" /\ arg = <<cab>>) => ret = 7
    /\ (pc = "scored" /\ arg = <<cab, cab>>) => ret = 12

PairwiseDistinct(words) ==
    \A i, j \in 1..Len(words) : i # j => words[i] # words[j]

\* trunc(S * m) for a word of n letters whose letters sum to S >= 0, with m
\* in halves: 2, 3, 4, 5 for 1.0, 1.5, 2.0, 2.5.
TruncatedWordScore(S, n) ==
    (S * (IF n <= 3 THEN 2 ELSE IF n <= 6 THEN 3 ELSE IF n <= 9 THEN 4 ELSE 5)) \div 2

RECURSIVE SumOfWordScores(_)
SumOfWordScores(words) ==
    IF words = <<>> THEN 0
    ELSE TruncatedWordScore(letter_sum(scoretable, Head(words)), Len(Head(words)))
         + SumOfWordScores(Tail(words))

GRID_WIDTH == 256
GRID_HEIGHT == 256

\* impl Index<GridIndex> for Grid<T>: self.0[index.1][index.0]
Grid_index(self, index) == IF index \in DOMAIN self THEN self[index] ELSE None

\* impl Index<Coordinate> for Grid<T>: self[GridIndex::from(index)]
Grid_index_coordinate(self, index) == Grid_index(self, GridIndex_from(index))

\* impl IndexMut<GridIndex> for Grid<T>, assigned `value`
Grid_index_mut(self, index, value) ==
    IF value = None
    THEN [i \in DOMAIN self \ {index} |-> self[i]]
    ELSE [i \in DOMAIN self \cup {index} |-> IF i = index THEN value ELSE self[i]]

\* impl IndexMut<Coordinate> for Grid<T>, assigned `value`
Grid_index_mut_coordinate(self, index, value) ==
    Grid_index_mut(self, GridIndex_from(index), value)

\* Option::is_some
is_some(option) == option # None

\* if let (x, false) = coordinate.overflowing_add(delta) { self[x].is_some() }
\* else { false }
neighbour_is_some(self, coordinate, delta) ==
    LET sum == Coordinate_overflowing_add(coordinate, delta)
    IN IF sum[2] = FALSE THEN is_some(Grid_index_coordinate(self, sum[1])) ELSE FALSE

\* Grid::letter_adjacent
letter_adjacent(self, coordinate) ==
    LET horizontal == \/ neighbour_is_some(self, coordinate, <<1, 0>>)
                      \/ neighbour_is_some(self, coordinate, <<-1, 0>>)
        vertical == \/ neighbour_is_some(self, coordinate, <<0, 1>>)
                    \/ neighbour_is_some(self, coordinate, <<0, -1>>)
    IN IF horizontal /\ vertical THEN "Both"
       ELSE IF horizontal THEN "Horizontal"
       ELSE IF vertical THEN "Vertical"
       ELSE "None"

\* The body of the horizontal pass at cell GridIndex(x, y); st is
\* [output, current_word].
horizontal_step(self, st, x, y) ==
    LET letter == Grid_index(self, <<x, y>>)
    IN IF is_some(letter)
       THEN IF letter_adjacent(self, Coordinate_from(<<x, y>>)) # "Vertical"
            THEN [st EXCEPT !.current_word = Append(@, letter)]
            ELSE st
       ELSE IF st.current_word # <<>>
            THEN [output |-> Append(st.output, st.current_word), current_word |-> <<>>]
            ELSE st

\* The body of the vertical pass at cell GridIndex(x, y).
vertical_step(self, st, x, y) ==
    LET letter == Grid_index(self, <<x, y>>)
    IN IF is_some(letter)
       THEN IF letter_adjacent(self, Coordinate_from(<<x, y>>)) # "Horizontal"
            THEN [st EXCEPT !.current_word = Append(@, letter)]
            ELSE st
       ELSE IF Len(st.current_word) = 1
            THEN [st EXCEPT !.current_word = <<>>]
            ELSE IF st.current_word # <<>>
                 THEN [output |-> Append(st.output, st.current_word), current_word |-> <<>>]
                 ELSE st

\* The place of a cell in the order `for y in 0..GRID_WIDTH { for x in
\* 0..GRID_HEIGHT` visits the cells, and in the order `for x in
\* 0..GRID_HEIGHT { for y in 0..GRID_WIDTH` does.
row_major(index) == index[2] * GRID_HEIGHT + index[1]
column_major(index) == index[1] * GRID_WIDTH + index[2]

\* Iterations lo..hi of the horizontal pass, in order.  Either pass leaves
\* st as it is at an empty cell it reaches with an empty current_word, so a
\* stretch of the iteration without a tile changes nothing when it is
\* entered with an empty current_word, and is run as its first cell alone
\* otherwise.
RECURSIVE horizontal_pass(_, _, _, _)
horizontal_pass(self, st, lo, hi) ==
    LET no_tile == \A i \in DOMAIN self : row_major(i) \notin lo..hi
    IN IF st.current_word = <<>> /\ no_tile THEN st
       ELSE IF lo = hi \/ no_tile
            THEN horizontal_step(self, st, lo % GRID_HEIGHT, lo \div GRID_HEIGHT)
            ELSE LET mid == (lo + hi) \div 2
                 IN horizontal_pass(self, horizontal_pass(self, st, lo, mid), mid + 1, hi)

\* Iterations lo..hi of the vertical pass, in order.
RECURSIVE vertical_pass(_, _, _, _)
vertical_pass(self, st, lo, hi) ==
    LET no_tile == \A i \in DOMAIN self : column_major(i) \notin lo..hi
    IN IF st.current_word = <<>> /\ no_tile THEN st
       ELSE IF lo = hi \/ no_tile
            THEN vertical_step(self, st, lo \div GRID_WIDTH, lo % GRID_WIDTH)
            ELSE LET mid == (lo + hi) \div 2
                 IN vertical_pass(self, vertical_pass(self, st, lo, mid), mid + 1, hi)

\* if !current_word.is_empty() { output.push(current_word); current_word = new }
flush_word(st) ==
    IF st.current_word # <<>>
    THEN [output |-> Append(st.output, st.current_word), current_word |-> <<>>]
    ELSE st

\* Grid::scan_for_words
scan_for_words(self) ==
    LET start == [output |-> <<>>, current_word |-> <<>>]
        after_rows == flush_word(horizontal_pass(self, start, 0, GRID_WIDTH * GRID_HEIGHT - 1))
        after_columns ==
            flush_word(vertical_pass(self, after_rows, 0, GRID_HEIGHT * GRID_WIDTH - 1))
    IN after_columns.output

\* A check that goes through the words from the last to the first.
RECURSIVE validate_words_from_last(_, _)
validate_words_from_last(words, dictionary) ==
    IF words = <<>> THEN Ok(<<>>)
    ELSE IF words[Len(words)] \notin dictionary THEN Err(InvalidWord(words[Len(words)]))
    ELSE validate_words_from_last(SubSeq(words, 1, Len(words) - 1), dictionary)

\* Grid::validate_words
RECURSIVE validate_words(_, _)
validate_words(words, dictionary) ==
    IF words = <<>> THEN Ok(<<>>)
    ELSE IF Head(words) \notin dictionary THEN Err(InvalidWord(Head(words)))
    ELSE validate_words(Tail(words), dictionary)

\* Grid::dfs, const DIRECTIONS
DIRECTIONS == <<(<<1, 0>>), (<<-1, 0>>), (<<0, 1>>), (<<0, -1>>)>>

\* Grid::dfs; visited is the Grid<bool>, and the result is visited afterwards.
\* dfs_directions is the `for direction in DIRECTIONS` loop from the k-th
\* direction on.
RECURSIVE dfs(_, _, _)
RECURSIVE dfs_directions(_, _, _, _)
dfs(self, visited, coordinate) ==
    dfs_directions(self, visited \cup {GridIndex_from(coordinate)}, coordinate, 1)

dfs_directions(self, visited, coordinate, k) ==
    IF k > Len(DIRECTIONS) THEN visited
    ELSE LET sum == Coordinate_overflowing_add(coordinate, DIRECTIONS[k])
             new_coord == sum[1]
             overflowed == sum[2]
         IN IF overflowed THEN dfs_directions(self, visited, coordinate, k + 1)
            ELSE IF /\ is_some(Grid_index_coordinate(self, new_coord))
                    /\ GridIndex_from(new_coord) \notin visited
                 THEN dfs_directions(self, dfs(self, visited, new_coord), coordinate, k + 1)
                 ELSE dfs_directions(self, visited, coordinate, k + 1)

\* The first loop of validate_connectivity: the first occupied cell in the
\* order `for x in 0..GRID_HEIGHT { for y in 0..GRID_WIDTH`, or None.
first_occupied(self) ==
    IF DOMAIN self = {} THEN None
    ELSE LET columns == {i[1] : i \in DOMAIN self}
             x == CHOOSE c \in columns : \A d \in columns : c <= d
             rows == {i[2] : i \in {j \in DOMAIN self : j[1] = x}}
             y == CHOOSE r \in rows : \A q \in rows : r <= q
         IN <<x, y>>

\* Grid::validate_connectivity.  The last loop looks for an occupied cell
\* that is not visited; only the cells of DOMAIN self are occupied.
validate_connectivity(self) ==
    LET start == first_occupied(self)
    IN IF start # None
       THEN LET visited == dfs(self, {}, Coordinate_from(start))
            IN IF \E i \in DOMAIN self : is_some(Grid_index(self, i)) /\ i \notin visited
               THEN Err(WordsNotConnected)
               ELSE Ok(<<>>)
       ELSE Ok(<<>>)

\* ------------------------------------------------------------------------
\* SpecGrid: a caller writes letters to a board, through Coordinates
\* (grid[coordinate] = Some(letter)) and through GridIndexes, in any order,
\* and then scans it for words or validates its connectivity.  arg records
\* which writes were made.
\* ------------------------------------------------------------------------

\* The letters written through a Coordinate: hello along y = 0, i below the
\* h, and a lone x.
Placements ==
    <<(<<(<<0, 0>>), "h">>), (<<(<<1, 0>>), "e">>), (<<(<<2, 0>>), "l">>),
      (<<(<<3, 0>>), "l">>), (<<(<<4, 0>>), "o">>), (<<(<<0, -1>>), "i">>),
      (<<(<<10, 10>>), "x">>)>>

\* The cells written through a GridIndex, each with the letter a.
IndexCells == {<<0, 0>>, <<255, 0>>, <<0, 1>>, <<255, 1>>, <<0, 2>>, <<255, 255>>}

InitGrid ==
    /\ Idle
    /\ pc = "build"
    /\ arg = [coordinates |-> {}, indexes |-> {}]
    /\ ret = None

WriteCoordinate ==
    /\ pc = "build"
    /\ \E k \in (1..Len(Placements)) \ arg.coordinates :
        /\ grid' = Grid_index_mut_coordinate(grid, Placements[k][1], Placements[k][2])
        /\ arg' = [arg EXCEPT !.coordinates = @ \cup {k}]
    /\ UNCHANGED <<pc, ret, cursor, tileset, score, game_end, clock, response, placed,
                   mutex>>

WriteGridIndex ==
    /\ pc = "build"
    /\ \E i \in IndexCells \ arg.indexes :
        /\ grid' = Grid_index_mut(grid, i, "a")
        /\ arg' = [arg EXCEPT !.indexes = @ \cup {i}]
    /\ UNCHANGED <<pc, ret, cursor, tileset, score, game_end, clock, response, placed,
                   mutex>>

ScanForWords ==
    /\ pc = "build"
    /\ ret' = scan_for_words(grid)
    /\ pc' = "scanned"
    /\ UNCHANGED <<arg, game_vars>>

ValidateConnectivity ==
    /\ pc = "build"
    /\ ret' = validate_connectivity(grid)
    /\ pc' = "validated"
    /\ UNCHANGED <<arg, game_vars>>

\* self.letter_adjacent(GridIndex(x, y).into()) for an occupied cell
LetterAdjacent ==
    /\ pc = "build"
    /\ \E cell \in DOMAIN grid :
           ret' = [cell |-> cell,
                   direction |-> letter_adjacent(grid, Coordinate_from(cell))]
    /\ pc' = "classified"
    /\ UNCHANGED <<arg, game_vars>>

NextGrid ==
    \/ WriteCoordinate
    \/ WriteGridIndex
    \/ ScanForWords
    \/ ValidateConnectivity
    \/ LetterAdjacent

SpecGrid == InitGrid /\ [][NextGrid]_vars

\* C4: scanning the board obtained by placing h, e, l, l, o at coordinates
\* (0,0) .. (4,0) and i at coordinate (0,-1) returns exactly the words
\* "hello" and "hi", in that order.
C4_HelloHi ==
    (pc = "scanned" /\ arg = [coordinates |-> 1..6, indexes |-> {}]) =>
        ret = <<(<<"h", "e", "l", "l", "o">>), (<<"h", "i">>)>>

\* Two cells are neighbours when they differ by one in one component; cells
\* on opposite edges are not.
Neighbours(i, j) ==
    \/ i[1] = j[1] /\ (i[2] - j[2] = 1 \/ j[2] - i[2] = 1)
    \/ i[2] = j[2] /\ (i[1] - j[1] = 1 \/ j[1] - i[1] = 1)

\* The occupied cells reachable from the cells of `reached`.
RECURSIVE Component(_, _)
Component(cells, reached) ==
    LET more == {j \in cells \ reached : \E i \in reached : Neighbours(i, j)}
    IN IF more = {} THEN reached ELSE Component(cells, reached \cup more)

AtMostOneComponent(cells) ==
    cells = {} \/ Component(cells, {CHOOSE i \in cells : TRUE}) = cells

\* C5: validate_connectivity returns Ok exactly when the occupied cells of
\* the board form at most one connected component under 4-connectivity, and
\* WordsNotConnected otherwise.
C5_Connectivity ==
    pc = "validated" =>
        IF AtMostOneComponent(DOMAIN grid) THEN ret = Ok(<<>>)
        ELSE ret = Err(WordsNotConnected)

\* ------------------------------------------------------------------------
\* dictionary.rs: the distribution and the pile built from it
\* ------------------------------------------------------------------------

\* Distribution::BANANAGRAMS
BANANAGRAMS ==
    <<(<<"a", 13>>), (<<"b", 3>>), (<<"c", 3>>), (<<"d", 6>>), (<<"e", 18>>),
      (<<"f", 3>>), (<<"g", 4>>), (<<"h", 3>>), (<<"i", 12>>), (<<"j", 2>>),
      (<<"k", 2>>), (<<"l", 5>>), (<<"m", 3>>), (<<"n", 8>>), (<<"o", 11>>),
      (<<"p", 3>>), (<<"q", 2>>), (<<"r", 9>>), (<<"s", 6>>), (<<"t", 9>>),
      (<<"u", 6>>), (<<"v", 3>>), (<<"w", 3>>), (<<"x", 2>>), (<<"y", 3>>),
      (<<"z", 2>>)>>

\* the fold that sums the weights of a LetterDistribution
RECURSIVE total_letters(_)
total_letters(letter_distribution) ==
    IF letter_distribution = <<>> THEN 0
    ELSE Head(letter_distribution)[2] + total_letters(Tail(letter_distribution))

\* An f64 that is positive and finite is kept as [m |-> mantissa, e |->
\* exponent], the value m * 2^e, with the mantissa below 2^55 in two limbs
\* <<high, low>> of 27 bits; Zero is 0.0.  The division rounds to the nearest
\* value of 53 significant bits, a tie to the even one, as IEEE 754 does.
Limb == 134217728
Zero == [m |-> <<0, 0>>, e |-> 0]

limbs(n) == <<n \div Limb, n % Limb>>
limbs_double(x) == <<2 * x[1] + ((2 * x[2]) \div Limb), (2 * x[2]) % Limb>>
limbs_half(x) == <<x[1] \div 2, (x[2] + (x[1] % 2) * Limb) \div 2>>
limbs_less(x, y) == x[1] < y[1] \/ (x[1] = y[1] /\ x[2] < y[2])
limbs_sub(x, y) ==
    IF x[2] >= y[2] THEN <<x[1] - y[1], x[2] - y[2]>>
    ELSE <<x[1] - y[1] - 1, x[2] + Limb - y[2]>>
limbs_succ(x) == IF x[2] + 1 = Limb THEN <<x[1] + 1, 0>> ELSE <<x[1], x[2] + 1>>

\* usize as f64, exact below 2^53
f64_from(n) == [m |-> limbs(n), e |-> 0]

\* n / d = (n' / d') * 2^k with d' <= n' < 2 d'
RECURSIVE f64_div_scale(_, _, _)
f64_div_scale(n, d, k) ==
    IF limbs_less(n, d) THEN f64_div_scale(limbs_double(n), d, k - 1)
    ELSE IF ~limbs_less(n, limbs_double(d)) THEN f64_div_scale(n, limbs_double(d), k + 1)
    ELSE <<n, d, k>>

\* 2^52: a quotient from here on has its 53 significant bits.
Significand == <<33554432, 0>>

\* the quotient grown bit by bit from q to 53 bits, and the remainder
RECURSIVE f64_div_bits(_, _, _)
f64_div_bits(r, d, q) ==
    IF ~limbs_less(q, Significand) THEN <<q, r>>
    ELSE IF limbs_less(limbs_double(r), d)
         THEN f64_div_bits(limbs_double(r), d, limbs_double(q))
         ELSE f64_div_bits(limbs_sub(limbs_double(r), d), d, limbs_succ(limbs_double(q)))

\* f64 / f64 of positive finite values
f64_div(x, y) ==
    IF x.m = <<0, 0>> THEN Zero
    ELSE LET scaled == f64_div_scale(x.m, y.m, 0)
             d == scaled[2]
             qr == f64_div_bits(limbs_sub(scaled[1], d), d, <<0, 1>>)
             twice == limbs_double(qr[2])
             up == limbs_less(d, twice) \/ (twice = d /\ qr[1][2] % 2 = 1)
         IN [m |-> IF up THEN limbs_succ(qr[1]) ELSE qr[1],
             e |-> scaled[3] - 52 + x.e - y.e]

\* m * 2^e for e <= 0, the bits below the point dropped
RECURSIVE limbs_shift_right(_, _)
limbs_shift_right(x, n) ==
    IF n = 0 \/ x = <<0, 0>> THEN x ELSE limbs_shift_right(limbs_half(x), n - 1)

\* f64::round() as usize: the nearest integer, a half away from zero
f64_round(x) ==
    IF x.m = <<0, 0>> THEN 0
    ELSE LET halves == limbs_shift_right(x.m, -x.e - 1)
         IN (halves[1] * Limb + halves[2] + 1) \div 2

\* (frequency as f64 / (total_letters / amount as f64)).round() as usize.
\* With amount = 0 the divisor is infinite (or NaN) and the share is 0.
rounded_share(frequency, total, amount) ==
    IF amount = 0 \/ total = 0 THEN 0
    ELSE f64_round(f64_div(f64_from(frequency),
                           f64_div(f64_from(total), f64_from(amount))))

\* vec![tile; n]
repeat(tile, n) == [i \in 1..n |-> tile]

\* Distribution::create_pile_internals
RECURSIVE create_pile_loop(_, _, _)
create_pile_loop(letter_distribution, total, amount) ==
    IF letter_distribution = <<>> THEN <<>>
    ELSE repeat(Head(letter_distribution)[1],
                rounded_share(Head(letter_distribution)[2], total, amount))
         \o create_pile_loop(Tail(letter_distribution), total, amount)

create_pile_internals(letter_distribution, amount) ==
    create_pile_loop(letter_distribution, total_letters(letter_distribution), amount)

\* Distribution::Bananagrams.create_pile(amount)
create_pile(amount) == create_pile_internals(BANANAGRAMS, amount)

\* ------------------------------------------------------------------------
\* camera.rs
\* ------------------------------------------------------------------------

\* Camera::put: <<the value returned, the grid afterwards>>
Camera_put(handle, at, letter) ==
    IF is_some(Grid_index_coordinate(handle, at)) THEN <<FALSE, handle>>
    ELSE <<TRUE, Grid_index_mut_coordinate(handle, at, letter)>>

\* Camera::pick_up: <<the tile returned, the grid afterwards>>
Camera_pick_up(handle, at) ==
    <<Grid_index_coordinate(handle, at), Grid_index_mut_coordinate(handle, at, None)>>

\* ------------------------------------------------------------------------
\* main.rs and ui.rs: the game and its key-event handler
\* ------------------------------------------------------------------------

\* main draws create_pile(144) and a hand of 21; the model plays the same
\* game with a pile of PileAmount and a hand of HandAmount.
PileAmount == 6
HandAmount == 2

\* The handler is run for MaxEvents key events, the cursor is kept within
\* 0..MaxCursor on both axes, and tiles are traded in while the pile is
\* shorter than MaxPile.
MaxEvents == 7
MaxCursor == 2
MaxPile == 4

\* main: Distribution::Bananagrams.create_pile(144), with PileAmount for 144
Pile == create_pile(PileAmount)

\* GameState::dictionary, the vocabulary loaded from the dictionary file
Vocabulary ==
    {<<"a">>, <<"e">>, <<"h", "i">>, <<"h", "e", "l", "l", "o">>}

\* The order of chars.
char_rank(c) == CHOOSE k \in 1..Len(BANANAGRAMS) : BANANAGRAMS[k][1] = c

\* hand.sort_unstable()
RECURSIVE sort_unstable(_)
sort_unstable(v) ==
    IF v = <<>> THEN <<>>
    ELSE LET k == CHOOSE i \in 1..Len(v) : \A j \in 1..Len(v) :
                      /\ char_rank(v[i]) <= char_rank(v[j])
                      /\ (char_rank(v[i]) = char_rank(v[j]) => i <= j)
         IN <<v[k]>> \o sort_unstable(SubSeq(v, 1, k - 1) \o SubSeq(v, k + 1, Len(v)))

\* hand.iter().position(|x| *x == letter)
position(v, letter) == CHOOSE i \in 1..Len(v) : v[i] = letter /\ \A j \in 1..(i - 1) : v[j] # letter

\* Vec::remove
remove(v, i) == SubSeq(v, 1, i - 1) \o SubSeq(v, i + 1, Len(v))

\* Vec::contains
contains(v, x) == \E i \in 1..Len(v) : v[i] = x

\* i64 / i64, truncating toward zero
i64_div(a, b) == IF a >= 0 THEN a \div b ELSE -((-a) \div b)

\* EventResponse
Pass == [response |-> "Pass"]
Quit == [response |-> "Quit"]
ChangeStatus(text) == [response |-> "ChangeStatus", status |-> text]

\* main: the GameState the loop starts with
Init ==
    /\ cursor = <<0, 0>>
    /\ grid = EmptyGrid
    /\ LET pile == Pile
           hand == pull_from_pile(pile, HandAmount)
       IN /\ hand.result.ok
          /\ tileset = <<hand.pile, sort_unstable(hand.result.value)>>
    /\ score = 0
    /\ game_end = <<>>
    /\ clock = 0
    /\ response = NoResponse
    /\ placed = EmptyGrid
    /\ mutex = Unlocked
    /\ pc = "event_loop"
    /\ arg = None
    /\ ret = None

\* The loop of main runs the handler, once for each key event, until it
\* answers Quit.
Running ==
    /\ pc = "event_loop"
    /\ response # Ok(Quit)
    /\ clock < MaxEvents
    /\ clock' = clock + 1

InWindow(c) == c[1] \in 0..MaxCursor /\ c[2] \in 0..MaxCursor

\* KeyCode::Esc | KeyCode::Char('Q')
KeyQuit ==
    /\ Running
    /\ response' = Ok(Quit)
    /\ UNCHANGED <<cursor, grid, tileset, score, game_end, placed, pc, arg, ret, mutex>>

\* state.camera += delta, then Ok(EventResponse::Pass)
Move(delta) ==
    /\ Running
    /\ InWindow(Coordinate_add(cursor, delta))
    /\ cursor' = Coordinate_add(cursor, delta)
    /\ response' = Ok(Pass)
    /\ UNCHANGED <<grid, tileset, score, game_end, placed, pc, arg, ret, mutex>>

KeyRight == Move(<<1, 0>>)
KeyLeft == Move(<<-1, 0>>)
KeyUp == Move(<<0, 1>>)
KeyDown == Move(<<0, -1>>)

\* KeyCode::Char('G'): the turn commit
KeyG ==
    /\ Running
    /\ IF tileset[2] # <<>>
       THEN /\ response' = Err(HandHasTiles)
            /\ UNCHANGED <<tileset, score, game_end>>
       ELSE LET words == scan_for_words(grid)
                connected == validate_connectivity(grid)
                valid == IF connected.ok THEN validate_words(words, Vocabulary)
                         ELSE connected
            IN IF ~valid.ok
               THEN /\ score' = score - i64_div(score, 20)
                    /\ response' = valid
                    /\ UNCHANGED <<tileset, game_end>>
               ELSE /\ score' = score + score_grid(words, scoretable)
                    /\ IF tileset[1] = <<>>
                       THEN /\ game_end' = <<clock'>>
                            /\ response' = Ok(ChangeStatus("Guavagrams!"))
                            /\ UNCHANGED tileset
                       ELSE LET pull == pull_from_pile(tileset[1], 1)
                            IN /\ IF pull.result.ok
                                  THEN /\ tileset' = <<pull.pile,
                                                       tileset[2] \o pull.result.value>>
                                       /\ response' = Ok(ChangeStatus("Peel!"))
                                  ELSE /\ tileset' = <<pull.pile, tileset[2]>>
                                       /\ response' = pull.result
                               /\ UNCHANGED game_end
    /\ UNCHANGED <<cursor, grid, placed, pc, arg, ret, mutex>>

\* The orders the model lets a shuffle leave a Vec in: its rotations.
shuffle(v) == {[i \in 1..Len(v) |-> v[((i + r - 1) % Len(v)) + 1]] : r \in 0..(Len(v) - 1)}

\* KeyCode::Char(letter) with CONTROL, letter in the hand, the game not
\* ended: the trade-in.
KeyControlLetter(letter) ==
    /\ Running
    /\ contains(tileset[2], letter)
    /\ game_end = <<>>
    /\ Len(tileset[1]) < MaxPile
    /\ IF Len(tileset[1]) >= 3
       THEN LET pull == pull_from_pile(tileset[1], 3)
                hand == tileset[2] \o pull.result.value
                pile == Append(pull.pile, hand[position(hand, letter)])
            IN /\ pull.result.ok
               /\ \E shuffled \in shuffle(pile) :
                      tileset' = <<shuffled, remove(hand, position(hand, letter))>>
               /\ score' = score - i64_div(score, 20)
       ELSE UNCHANGED <<tileset, score>>
    /\ response' = Ok(ChangeStatus("Deducted 5% of points for trading in tiles."))
    /\ UNCHANGED <<cursor, grid, game_end, placed, pc, arg, ret, mutex>>

\* KeyCode::Char(letter), a letter of the distribution that is in the hand,
\* the game not ended: the letter is put at the cursor.
KeyLetter(letter) ==
    /\ Running
    /\ \E k \in 1..Len(BANANAGRAMS) : BANANAGRAMS[k][1] = letter
    /\ contains(tileset[2], letter)
    /\ game_end = <<>>
    /\ LET put == Camera_put(grid, cursor, letter)
       IN /\ grid' = put[2]
          /\ IF put[1]
             THEN /\ tileset' = <<tileset[1], remove(tileset[2], position(tileset[2], letter))>>
                  /\ placed' = Grid_index_mut(placed, cursor, letter)
             ELSE UNCHANGED <<tileset, placed>>
    /\ response' = Ok(Pass)
    /\ UNCHANGED <<cursor, score, game_end, pc, arg, ret, mutex>>

\* KeyCode::Backspace, the game not ended: the tile at the cursor is picked up.
KeyBackspace ==
    /\ Running
    /\ game_end = <<>>
    /\ LET pick == Camera_pick_up(grid, cursor)
       IN /\ grid' = pick[2]
          /\ IF is_some(pick[1])
             THEN tileset' = <<tileset[1], Append(tileset[2], pick[1])>>
             ELSE UNCHANGED tileset
    /\ placed' = Grid_index_mut(placed, cursor, None)
    /\ response' = Ok(Pass)
    /\ UNCHANGED <<cursor, score, game_end, pc, arg, ret, mutex>>

\* The letters a key can carry: those of the tiles in play.
KeyLetters == {Pile[i] : i \in 1..Len(Pile)}

Next ==
    \/ KeyQuit
    \/ KeyRight
    \/ KeyLeft
    \/ KeyUp
    \/ KeyDown
    \/ KeyG
    \/ \E letter \in KeyLetters : KeyControlLetter(letter)
    \/ \E letter \in KeyLetters : KeyLetter(letter)
    \/ KeyBackspace

Spec == Init /\ [][Next]_vars

\* The coordinates the cursor visits.
Window == {c \in (0..MaxCursor) \X (0..MaxCursor) : InWindow(c)}

\* C3: whenever a letter is put at the cursor, Camera::put returns false
\* exactly when a letter placed earlier at the cursor's coordinate has not
\* been picked up since; when it returns true the board holds the letter at
\* that coordinate and the cell of every other coordinate is unchanged.
C3_PutExactlyWhenFree ==
    [][\A letter \in KeyLetters :
          KeyLetter(letter) =>
              LET put == Camera_put(grid, cursor, letter)
              IN /\ put[1] = (cursor \notin DOMAIN placed)
                 /\ put[1] =>
                       /\ Grid_index_coordinate(grid', cursor) = letter
                       /\ \A c \in Window \ {cursor} :
                              Grid_index_coordinate(grid', c) =
                                  Grid_index_coordinate(grid, c)]_vars

\* C9: in every reachable state of the game the pile holds no more tiles
\* than create_pile built it with.
C9_PileNeverGrows == Len(tileset[1]) <= Len(Pile)

\* ------------------------------------------------------------------------
\* dictionary.rs, util.rs: the endless draw
\* ------------------------------------------------------------------------

\* A panic of the running thread (todo!(), unwrap on an Err).
Panic == [ok |-> FALSE, panic |-> TRUE]

\* enum Distribution
Dictionary(letter_distribution) == [variant |-> "Dictionary", table |-> letter_distribution]
Bananagrams == [variant |-> "Bananagrams"]
Scrabble == [variant |-> "Scrabble"]

\* create_weights: WeightedIndex::new(weights).unwrap().  The constructor
\* fails on an empty list and on a list whose weights are all zero; a
\* WeightedIndex samples the indexes of positive weight.
create_weights(list) ==
    LET positive == {i \in 1..Len(list) : list[i][2] > 0}
    IN IF positive = {} THEN Panic ELSE [sample |-> positive]

\* Distribution::pull_endless: the outcomes of one call.
pull_endless_sample(letter_distribution) ==
    LET weights == create_weights(letter_distribution)
    IN IF weights = Panic THEN {Panic}
       ELSE {Ok(letter_distribution[i][1]) : i \in weights.sample}

pull_endless(self) ==
    IF self.variant = "Dictionary" THEN pull_endless_sample(self.table)
    ELSE {Panic}

\* The tables the endless draw is run on: up to MaxTableLen entries, letters
\* of TableLetters, weights up to MaxWeight.
MaxTableLen == 3
MaxWeight == 2
TableLetters == {"a", "b"}

Tables == SeqsUpTo(TableLetters \X (0..MaxWeight), MaxTableLen)

Distributions == {Dictionary(t) : t \in Tables} \cup {Bananagrams, Scrabble}

InitEndless ==
    /\ Idle
    /\ pc = "draw"
    /\ arg \in Distributions
    /\ ret = None

PullEndless ==
    /\ pc = "draw"
    /\ ret' \in pull_endless(arg)
    /\ pc' = "drawn"
    /\ UNCHANGED <<arg, game_vars>>

NextEndless == PullEndless

SpecEndless == InitEndless /\ [][NextEndless]_vars

\* The table of weights a variant stands for; Scrabble has none in the code.
table_of(self) ==
    IF self.variant = "Dictionary" THEN self.table
    ELSE IF self.variant = "Bananagrams" THEN BANANAGRAMS
    ELSE <<>>

\* A distribution with at least one letter of positive weight.  The Scrabble
\* variant names a letter set of the game, every letter of it with tiles.
has_positive_weight(self) ==
    \/ self.variant = "Scrabble"
    \/ \E i \in 1..Len(table_of(self)) : table_of(self)[i][2] > 0

\* C11: for every distribution variant with a letter of positive weight,
\* pull_endless returns a letter of positive weight in that distribution,
\* without failing and without changing any pile.
C11_PullEndless ==
    (pc = "drawn" /\ has_positive_weight(arg)) =>
        /\ ret.ok
        /\ arg.variant # "Scrabble" =>
               \E i \in 1..Len(table_of(arg)) :
                   table_of(arg)[i][2] > 0 /\ table_of(arg)[i][1] = ret.value
        /\ tileset = <<(<<>>), (<<>>)>>

\* ------------------------------------------------------------------------
\* SpecCommit: the turn commit of event_handler, statement by statement,
\* while another holder of the SharedGrid puts and picks up tiles.
\* ------------------------------------------------------------------------

\* Who holds the Mutex of the grid.
Handler == "handler"

\* The boards the commit starts on have a tile or none in each column
\* 0..MaxColumn of row 0, put there through a Camera; the score so far is
\* one of Scores; the other holder acts at most MaxOther times.
MaxColumn == 2
MaxOther == 2
CommitLetters == {"a", "i"}
Scores == {0, 100}

RECURSIVE put_columns(_, _)
put_columns(tiles, x) ==
    IF x < 0 THEN EmptyGrid
    ELSE Grid_index_mut_coordinate(put_columns(tiles, x - 1), <<x, 0>>, tiles[x])

InitCommit ==
    /\ cursor = <<0, 0>>
    /\ \E tiles \in [0..MaxColumn -> CommitLetters \cup {None}] :
           grid = put_columns(tiles, MaxColumn)
    /\ \E hand \in {<<>>, <<"e">>} : tileset = <<Pile, hand>>
    /\ score \in Scores
    /\ game_end = <<>>
    /\ clock = 0
    /\ response = NoResponse
    /\ placed = EmptyGrid
    /\ mutex = Unlocked
    /\ pc = "commit"
    /\ arg = None
    /\ ret = None

\* if !state.tileset.1.is_empty() { return Err(HandHasTiles) }
\* let handle = state.camera.grid.lock().unwrap();
CommitLock ==
    /\ pc = "commit"
    /\ IF tileset[2] # <<>>
       THEN /\ ret' = Err(HandHasTiles)
            /\ pc' = "returned"
            /\ UNCHANGED mutex
       ELSE /\ mutex = Unlocked
            /\ mutex' = Handler
            /\ pc' = "scan"
            /\ UNCHANGED ret
    /\ UNCHANGED <<cursor, grid, tileset, score, game_end, clock, response, placed, arg>>

\* let words = handle.scan_for_words();
CommitScan ==
    /\ pc = "scan"
    /\ arg' = scan_for_words(grid)
    /\ pc' = "connectivity"
    /\ UNCHANGED <<cursor, grid, tileset, score, game_end, clock, response, placed,
                   mutex, ret>>

\* The error path: state.score -= state.score / 20; return Err(exception),
\* which drops the handle.
commit_failed(exception) ==
    /\ score' = score - i64_div(score, 20)
    /\ ret' = exception
    /\ mutex' = Unlocked
    /\ pc' = "returned"

\* handle.validate_connectivity()
CommitConnectivity ==
    /\ pc = "connectivity"
    /\ LET connected == validate_connectivity(grid)
       IN IF connected.ok
          THEN pc' = "dictionary" /\ UNCHANGED <<score, ret, mutex>>
          ELSE commit_failed(connected)
    /\ UNCHANGED <<cursor, grid, tileset, game_end, clock, response, placed, arg>>

\* .and_then(|()| Grid::validate_words(&words, &state.dictionary))
CommitDictionary ==
    /\ pc = "dictionary"
    /\ LET valid == validate_words(arg, Vocabulary)
       IN IF valid.ok
          THEN pc' = "drop" /\ UNCHANGED <<score, ret, mutex>>
          ELSE commit_failed(valid)
    /\ UNCHANGED <<cursor, grid, tileset, game_end, clock, response, placed, arg>>

\* drop(handle);
CommitDrop ==
    /\ pc = "drop"
    /\ mutex' = Unlocked
    /\ pc' = "score"
    /\ UNCHANGED <<cursor, grid, tileset, score, game_end, clock, response, placed,
                   arg, ret>>

\* state.score += Grid::score_grid(&words, &state.scoretable);
CommitScore ==
    /\ pc = "score"
    /\ score' = score + score_grid(arg, scoretable)
    /\ pc' = "peel"
    /\ UNCHANGED <<cursor, grid, tileset, game_end, clock, response, placed, mutex,
                   arg, ret>>

\* The end of the game or the peel, and the return.
CommitPeel ==
    /\ pc = "peel"
    /\ IF tileset[1] = <<>>
       THEN /\ game_end' = <<clock>>
            /\ ret' = Ok(ChangeStatus("Guavagrams!"))
            /\ UNCHANGED tileset
       ELSE LET pull == pull_from_pile(tileset[1], 1)
            IN /\ IF pull.result.ok
                  THEN /\ tileset' = <<pull.pile, tileset[2] \o pull.result.value>>
                       /\ ret' = Ok(ChangeStatus("Peel!"))
                  ELSE /\ tileset' = <<pull.pile, tileset[2]>>
                       /\ ret' = pull.result
               /\ UNCHANGED game_end
    /\ pc' = "returned"
    /\ UNCHANGED <<cursor, grid, score, clock, response, placed, mutex, arg>>

\* Another holder of the SharedGrid takes the lock for one put or for the
\* write of one pick_up through a Camera of its own.
OtherPut ==
    /\ mutex = Unlocked
    /\ clock < MaxOther
    /\ \E x \in 0..MaxColumn, letter \in CommitLetters :
           grid' = Camera_put(grid, <<x, 0>>, letter)[2]
    /\ clock' = clock + 1
    /\ UNCHANGED <<cursor, tileset, score, game_end, response, placed, mutex,
                   pc, arg, ret>>

OtherPickUp ==
    /\ mutex = Unlocked
    /\ clock < MaxOther
    /\ \E x \in 0..MaxColumn : grid' = Camera_pick_up(grid, <<x, 0>>)[2]
    /\ clock' = clock + 1
    /\ UNCHANGED <<cursor, tileset, score, game_end, response, placed, mutex,
                   pc, arg, ret>>

NextCommit ==
    \/ CommitLock
    \/ CommitScan
    \/ CommitConnectivity
    \/ CommitDictionary
    \/ CommitDrop
    \/ CommitScore
    \/ CommitPeel
    \/ OtherPut
    \/ OtherPickUp

SpecCommit == InitCommit /\ [][NextCommit]_vars

\* C12: from the start of the word scan until scoring has finished the
\* handler holds the lock of the board, so the board does not change between
\* the scan, the connectivity check, the dictionary check and the scoring.
C12_CriticalSection ==
    [][(pc \in {"scan", "connectivity", "dictionary", "drop", "score"}) =>
           (mutex = Handler /\ grid' = grid)]_vars

\* C13: a commit with an empty hand returns the first validation error in
\* the order connectivity, dictionary: on a disconnected board the result is
\* WordsNotConnected whatever the scanned words are, InvalidWord is returned
\* only for a connected board, and the score_grid delta is added only after
\* both validations have succeeded; an error path adds none.
C13_FirstError ==
    [][(pc \in {"commit", "scan", "connectivity", "dictionary", "drop", "score", "peel"}) =>
           (/\ (pc = "connectivity" /\ ~AtMostOneComponent(DOMAIN grid)) =>
                   (pc' = "returned" /\ ret' = Err(WordsNotConnected))
            /\ (pc = "dictionary" /\ pc' = "returned") =>
                   (/\ AtMostOneComponent(DOMAIN grid)
                    /\ ret' = validate_words(arg, Vocabulary)
                    /\ ret'.error.kind = "InvalidWord")
            /\ (pc \in {"connectivity", "dictionary"} /\ pc' = "returned") =>
                   score' = score - i64_div(score, 20)
            /\ pc # "score" => score' <= score
            /\ pc = "score" => validate_words(arg, Vocabulary).ok)]_vars

\* ------------------------------------------------------------------------
\* SpecWords: a caller validates any few words against any vocabulary.
\* ------------------------------------------------------------------------

\* The words are drawn from WordPool, at most MaxWords of them; the
\* vocabulary is any subset of WordPool.
MaxWords == 3
WordPool ==
    {<<"h", "e", "l", "l", "o">>, <<"h", "i">>, <<"H", "i">>, <<"a">>}

InitWords ==
    /\ Idle
    /\ pc = "call"
    /\ arg \in [words : SeqsUpTo(WordPool, MaxWords), dictionary : SUBSET WordPool]
    /\ ret = None

ValidateWords ==
    /\ pc = "call"
    /\ ret' = validate_words(arg.words, arg.dictionary)
    /\ pc' = "validated"
    /\ UNCHANGED <<arg, game_vars>>

NextWords == ValidateWords

SpecWords == InitWords /\ [][NextWords]_vars

\* C14: validate_words returns Ok exactly when every word of the input is
\* in the vocabulary, compared exactly; otherwise it returns InvalidWord(w)
\* for the first word w of the input that is not in the vocabulary.
C14_ValidateWords ==
    pc = "validated" =>
        LET absent == {i \in 1..Len(arg.words) : arg.words[i] \notin arg.dictionary}
        IN /\ ret.ok <=> absent = {}
           /\ absent # {} =>
                  \E i \in absent :
                      /\ \A j \in absent : i <= j
                      /\ ret = Err(InvalidWord(arg.words[i]))

\* hello, hi is refused against the vocabulary {hello}, naming hi.
C14_Witness ==
    /\ pc = "validated"
    /\ arg = [words |-> <<(<<"h", "e", "l", "l", "o">>), (<<"h", "i">>)>>,
              dictionary |-> {<<"h", "e", "l", "l", "o">>}]
    /\ ret = Err(InvalidWord(<<"h", "i">>))

\* ------------------------------------------------------------------------
\* SpecCursor: a caller adds and subtracts Coordinates near the bounds of
\* i8, and a Camera is moved over the whole board.
\* ------------------------------------------------------------------------

\* The components the operands are drawn from.
EdgeValues == {i8_MIN, i8_MIN + 1, -1, 0, 1, i8_MAX - 1, i8_MAX}

InitCursor ==
    /\ Idle
    /\ \/ /\ pc = "call"
          /\ arg \in [a : EdgeValues \X EdgeValues, d : EdgeValues \X EdgeValues]
       \/ /\ pc = "moving"
          /\ arg = None
    /\ ret = None

\* a + d
AddCoordinates ==
    /\ pc = "call"
    /\ ret' = Coordinate_add(arg.a, arg.d)
    /\ pc' = "added"
    /\ UNCHANGED <<arg, game_vars>>

\* a - d
SubCoordinates ==
    /\ pc = "call"
    /\ ret' = Coordinate_sub(arg.a, arg.d)
    /\ pc' = "subtracted"
    /\ UNCHANGED <<arg, game_vars>>

\* impl AddAssign<Coordinate> for Camera, with one of the four unit moves of
\* event_handler: self.cursor += rhs
MoveCursor ==
    /\ pc \in {"moving", "moved"}
    /\ \E k \in 1..Len(DIRECTIONS) :
           /\ cursor' = Coordinate_add(cursor, DIRECTIONS[k])
           /\ arg' = [a |-> cursor, d |-> DIRECTIONS[k]]
    /\ ret' = cursor'
    /\ pc' = "moved"
    /\ UNCHANGED <<grid, tileset, score, game_end, clock, response, placed, mutex>>

NextCursor == AddCoordinates \/ SubCoordinates \/ MoveCursor

SpecCursor == InitCursor /\ [][NextCursor]_vars

clamp(v, min, max) == IF v < min THEN min ELSE IF v > max THEN max ELSE v

\* C15: a + d and a - d have the components of the exact sum and difference
\* clamped to -128..127, never a wrapped value; the cursor stays on the board
\* after any sequence of unit moves, and a move that would leave the board
\* keeps it at the edge.
C15_Saturating ==
    /\ pc \in {"added", "moved"} =>
           ret = <<clamp(arg.a[1] + arg.d[1], -128, 127),
                   clamp(arg.a[2] + arg.d[2], -128, 127)>>
    /\ pc = "subtracted" =>
           ret = <<clamp(arg.a[1] - arg.d[1], -128, 127),
                   clamp(arg.a[2] - arg.d[2], -128, 127)>>
    /\ cursor \in (-128..127) \X (-128..127)
    /\ pc = "moved" => cursor = ret

\* The cursor is at the right edge after a move to the right from the edge.
C15_Witness ==
    /\ pc = "moved"
    /\ arg = [a |-> <<127, 0>>, d |-> <<1, 0>>]
    /\ cursor = <<127, 0>>

\* ------------------------------------------------------------------------
\* SpecCreatePile: a caller builds piles of any small amount, and of 144,
\* from the Bananagrams table and from short dictionary tables.
\* ------------------------------------------------------------------------

\* Distribution::create_pile(&self, amount)
Distribution_create_pile(self, amount) ==
    IF self.variant = "Dictionary" THEN Ok(create_pile_internals(self.table, amount))
    ELSE IF self.variant = "Bananagrams" THEN Ok(create_pile_internals(BANANAGRAMS, amount))
    ELSE Panic

\* The amounts are 0..MaxAmount and the 144 of main; the dictionary tables
\* have at most MaxPileTableLen entries.
MaxAmount == 30
MaxPileTableLen == 2
FullAmount == 144

PileTables == SeqsUpTo(TableLetters \X (0..MaxWeight), MaxPileTableLen)

InitCreatePile ==
    /\ Idle
    /\ pc = "call"
    /\ arg \in [distribution : {Dictionary(t) : t \in PileTables} \cup {Bananagrams},
                amount : (0..MaxAmount) \cup {FullAmount}]
    /\ ret = None

CreatePile ==
    /\ pc = "call"
    /\ ret' = Distribution_create_pile(arg.distribution, arg.amount)
    /\ pc' = "created"
    /\ UNCHANGED <<arg, game_vars>>

NextCreatePile == CreatePile

SpecCreatePile == InitCreatePile /\ [][NextCreatePile]_vars

\* round(weight * amount / total), a tie rounded away from zero
exact_share(weight, total, amount) == (2 * weight * amount + total) \div (2 * total)

\* the copies the entries of a table give a letter
RECURSIVE exact_copies(_, _, _, _)
exact_copies(table, letter, total, amount) ==
    IF table = <<>> THEN 0
    ELSE (IF Head(table)[1] = letter THEN exact_share(Head(table)[2], total, amount) ELSE 0)
         + exact_copies(Tail(table), letter, total, amount)

copies(pile, letter) == Cardinality({i \in 1..Len(pile) : pile[i] = letter})

\* C16: for a table of positive total weight and any amount, the pile holds
\* round(weight * amount / total) copies of each letter, ties rounded away
\* from zero, so its size is within half the number of entries of amount;
\* and create_pile(144) on the Bananagrams table has 144 tiles, each letter
\* as often as its weight.
C16_CreatePile ==
    (pc = "created" /\ total_letters(table_of(arg.distribution)) > 0) =>
        LET table == table_of(arg.distribution)
            total == total_letters(table)
            pile == ret.value
        IN /\ ret.ok
           /\ \A i \in 1..Len(table) :
                  copies(pile, table[i][1]) =
                      exact_copies(table, table[i][1], total, arg.amount)
           /\ \A k \in 1..Len(pile) : \E i \in 1..Len(table) : pile[k] = table[i][1]
           /\ 2 * Len(pile) - 2 * arg.amount <= Len(table)
           /\ 2 * arg.amount - 2 * Len(pile) <= Len(table)
           /\ (arg.distribution = Bananagrams /\ arg.amount = 144) =>
                  (/\ Len(pile) = 144
                   /\ \A i \in 1..Len(table) : copies(pile, table[i][1]) = table[i][2])

\* The classification the occupancy of the four cardinal neighbours of a
\* cell gives; a position off the board is in no board.
true_direction(self, cell) ==
    LET horizontal == \/ <<cell[1] + 1, cell[2]>> \in DOMAIN self
                      \/ <<cell[1] - 1, cell[2]>> \in DOMAIN self
        vertical == \/ <<cell[1], cell[2] + 1>> \in DOMAIN self
                    \/ <<cell[1], cell[2] - 1>> \in DOMAIN self
    IN IF horizontal /\ vertical THEN "Both"
       ELSE IF horizontal THEN "Horizontal"
       ELSE IF vertical THEN "Vertical"
       ELSE "None"

\* C17: for every occupied cell, letter_adjacent returns the classification
\* given by the occupancy of the cell's four cardinal neighbours on the
\* board, a neighbour off the board counting as unoccupied.
C17_LetterAdjacent ==
    pc = "classified" => ret.direction = true_direction(grid, ret.cell)

\* The word lies in one row, or in one column, of the board: its letters are
\* those of consecutive cells starting at some occupied cell.
in_one_row(self, word) ==
    \E start \in DOMAIN self :
        \A k \in 1..Len(word) :
            Grid_index(self, <<start[1] + k - 1, start[2]>>) = word[k]

in_one_column(self, word) ==
    \E start \in DOMAIN self :
        \A k \in 1..Len(word) :
            Grid_index(self, <<start[1], start[2] + k - 1>>) = word[k]

\* C18: every word scan_for_words returns consists of the letters of
\* consecutive cells of a single row or of a single column; tiles at the end
\* of one row (column) and at the start of the next are never joined.
C18_SingleLine ==
    pc = "scanned" =>
        \A k \in 1..Len(ret) : in_one_row(grid, ret[k]) \/ in_one_column(grid, ret[k])

\* The words the horizontal pass and its flush contribute.
horizontal_words(self) ==
    flush_word(horizontal_pass(self, [output |-> <<>>, current_word |-> <<>>],
                               0, GRID_WIDTH * GRID_HEIGHT - 1)).output

\* C19: every word the vertical pass adds to the words of the horizontal
\* pass has at least two letters, and a board holding one lone tile yields
\* at most one single-letter word.
C19_VerticalWords ==
    pc = "scanned" =>
        /\ \A k \in (Len(horizontal_words(grid)) + 1)..Len(ret) : Len(ret[k]) >= 2
        /\ Cardinality(DOMAIN grid) = 1 =>
               Cardinality({k \in 1..Len(ret) : Len(ret[k]) = 1}) <= 1

\* ------------------------------------------------------------------------
\* SpecDfs: validate_connectivity call by call.  arg holds the locals of
\* the run: visited (the Grid<bool>), stack (the frames of Grid::dfs, each
\* with its coordinate and the index of the direction its loop is at), and
\* entered (the cells marked by `visited[coordinate] = true`, in order);
\* clock counts the steps the call has taken.
\* ------------------------------------------------------------------------

\* The boards: every set of DfsCells with the letter a, and the board with
\* every cell occupied.
DfsCells ==
    {<<127, 128>>, <<128, 127>>, <<129, 126>>, <<0, 255>>, <<255, 0>>, <<254, 1>>,
     <<0, 0>>, <<255, 255>>}

FullBoard == [i \in GridIndexes |-> "a"]

\* The call has not returned.
NotReturned == [ok |-> FALSE, returned |-> FALSE]

InitDfs ==
    /\ cursor = <<0, 0>>
    /\ \/ \E cells \in SUBSET DfsCells : grid = [i \in cells |-> "a"]
       \/ grid = FullBoard
    /\ tileset = <<(<<>>), (<<>>)>>
    /\ score = 0
    /\ game_end = <<>>
    /\ clock = 0
    /\ response = NoResponse
    /\ placed = EmptyGrid
    /\ mutex = Unlocked
    /\ pc = "call"
    /\ arg = [visited |-> {}, stack |-> <<>>, entered |-> <<>>]
    /\ ret = NotReturned

dfs_vars == <<cursor, grid, tileset, score, game_end, response, placed, mutex>>

\* Entering Grid::dfs: visited[coordinate] = true, and the loop starts.
dfs_enter(locals, coordinate) ==
    [visited |-> locals.visited \cup {GridIndex_from(coordinate)},
     stack |-> Append(locals.stack, [coordinate |-> coordinate, direction |-> 1]),
     entered |-> Append(locals.entered, GridIndex_from(coordinate))]

\* A search that enters every occupied neighbour, visited or not.
dfs_enters_occupied(self, visited, new_coord) ==
    is_some(Grid_index_coordinate(self, new_coord))

\* self[new_coord].is_some() && !visited[new_coord]
dfs_enters(self, visited, new_coord) ==
    /\ is_some(Grid_index_coordinate(self, new_coord))
    /\ GridIndex_from(new_coord) \notin visited

\* The seed search, and the call of dfs from the first occupied cell.
SeedSearch ==
    /\ pc = "call"
    /\ LET start == first_occupied(grid)
       IN IF DOMAIN grid = {}
          THEN /\ ret' = Ok(<<>>)
               /\ pc' = "validated"
               /\ UNCHANGED arg
          ELSE /\ arg' = dfs_enter(arg, Coordinate_from(start))
               /\ pc' = "dfs"
               /\ UNCHANGED ret
    /\ clock' = clock + 1
    /\ UNCHANGED dfs_vars

\* One turn of `for direction in DIRECTIONS` in the top frame.
DfsDirection ==
    /\ pc = "dfs"
    /\ arg.stack # <<>>
    /\ LET top == arg.stack[Len(arg.stack)]
           sum == Coordinate_overflowing_add(top.coordinate, DIRECTIONS[top.direction])
           new_coord == sum[1]
           overflowed == sum[2]
           advanced == [arg EXCEPT !.stack[Len(arg.stack)].direction = @ + 1]
       IN /\ top.direction <= Len(DIRECTIONS)
          /\ IF ~overflowed /\ dfs_enters(grid, arg.visited, new_coord)
             THEN arg' = dfs_enter(advanced, new_coord)
             ELSE arg' = advanced
    /\ clock' = clock + 1
    /\ UNCHANGED <<pc, ret, dfs_vars>>

\* The loop of the top frame is over: dfs returns.
DfsReturn ==
    /\ pc = "dfs"
    /\ arg.stack # <<>>
    /\ arg.stack[Len(arg.stack)].direction > Len(DIRECTIONS)
    /\ arg' = [arg EXCEPT !.stack = SubSeq(@, 1, Len(@) - 1)]
    /\ clock' = clock + 1
    /\ UNCHANGED <<pc, ret, dfs_vars>>

\* The last loop: an occupied cell that is not visited is an error.
CheckVisited ==
    /\ pc = "dfs"
    /\ arg.stack = <<>>
    /\ ret' = IF \E i \in DOMAIN grid : i \notin arg.visited
              THEN Err(WordsNotConnected)
              ELSE Ok(<<>>)
    /\ pc' = "validated"
    /\ clock' = clock + 1
    /\ UNCHANGED <<arg, dfs_vars>>

NextDfs == SeedSearch \/ DfsDirection \/ DfsReturn \/ CheckVisited

SpecDfs == InitDfs /\ [][NextDfs]_vars

\* No cell occurs twice among the cells entered.
entered_once(entered) ==
    \A i, j \in 1..Len(entered) : entered[i] = entered[j] => i = j

\* The turns the loops of the frames first..last of the stack still have to
\* take, each frame's return counted as one.
RECURSIVE pending(_, _, _)
pending(stack, first, last) ==
    IF first > last THEN 0
    ELSE IF first = last THEN Len(DIRECTIONS) + 2 - stack[first].direction
    ELSE LET middle == (first + last) \div 2
         IN pending(stack, first, middle) + pending(stack, middle + 1, last)

\* A bound on the steps the call still takes: the cells not entered yet, each
\* with the turns of its loop and its return, the turns pending on the stack,
\* and the steps of validate_connectivity itself.
rank ==
    (Len(DIRECTIONS) + 2) * (Cardinality(U8) * Cardinality(U8) - Len(arg.entered))
    + pending(arg.stack, 1, Len(arg.stack))
    + (CASE pc = "call" -> 2 [] pc = "dfs" -> 1 [] OTHER -> 0)

\* The bound before the first step.
first_rank == (Len(DIRECTIONS) + 2) * (Cardinality(U8) * Cardinality(U8)) + 2

\* A call that has not returned has a step to take: the seed search, the
\* last loop when no frame is left, and otherwise a turn of the top frame's
\* loop or its return.
dfs_can_step ==
    \/ pc = "call"
    \/ pc = "dfs" /\ arg.stack = <<>>
    \/ /\ pc = "dfs" /\ arg.stack # <<>>
       /\ arg.stack[Len(arg.stack)].direction \in 1..(Len(DIRECTIONS) + 1)

\* C20: validate_connectivity terminates on every board, the fully occupied
\* one and boards with tiles on the edges included: no cell is entered twice,
\* so the steps taken and the bound on the steps left never add up to more
\* than the bound before the first step, a call that has not returned has a
\* step to take, and the call returns Ok or WordsNotConnected.
C20_Terminates ==
    /\ entered_once(arg.entered)
    /\ rank >= 0
    /\ clock + rank <= first_rank
    /\ pc # "validated" => dfs_can_step
    /\ pc = "validated" => ret \in {Ok(<<>>), Err(WordsNotConnected)}

\* C20 (witness): the call on a board with two tiles next to each other at
\* the right edge has returned Ok, after entering both and skipping the
\* neighbour beyond the edge.
C20_Witness ==
    /\ pc = "validated"
    /\ DOMAIN grid = {<<254, 1>>, <<255, 0>>}
    /\ arg.entered = <<(<<254, 1>>), (<<255, 0>>)>>
    /\ ret = Ok(<<>>)

\* ------------------------------------------------------------------------
\* SpecLate: the game late on, when the pile the commit finds may be empty.
\* The key events are those of the game; the states the handler starts from
\* are the GameStates with a hand of LateHands, a pile of LatePiles and a
\* score of LateScores, the board still empty.
\* ------------------------------------------------------------------------

LatePiles == {<<>>, <<"e">>}

LateHands == {<<"a">>, <<"e">>, <<"a", "e">>, <<"a", "a">>}

LateScores == {0, 100}

InitLate ==
    /\ cursor = <<0, 0>>
    /\ grid = EmptyGrid
    /\ \E pile \in LatePiles, hand \in LateHands : tileset = <<pile, hand>>
    /\ score \in LateScores
    /\ game_end = <<>>
    /\ clock = 0
    /\ response = NoResponse
    /\ placed = EmptyGrid
    /\ mutex = Unlocked
    /\ pc = "event_loop"
    /\ arg = None
    /\ ret = None

SpecLate == InitLate /\ [][Next]_vars

=============================================================================
